---- MODULE Spec2Model ----
(***************************************************************************)
(* Patient registration API: the dual-write registration flow              *)
(* (validate -> primary write -> best-effort mirror -> respond) and the    *)
(* read surface (paginated list, lookup by id) over the primary store.     *)
(***************************************************************************)
EXTENDS Integers, Sequences, FiniteSets, TLC

(***************************************************************************)
(* Bounds of the model.                                                    *)
(***************************************************************************)
MaxRequests == 2
MaxClock == 1
MaxRows == 2
MaxSkip == 1
MaxLimit == 2
ValRequests == 1

(***************************************************************************)
(* Program constants.                                                      *)
(***************************************************************************)
name_min_length == 2
name_max_length == 100
age_gt == 0
age_lt == 150
contact_min_length == 5
contact_max_length == 20
HTTP_201_CREATED == 201
HTTP_200_OK == 200
HTTP_404_NOT_FOUND == 404
HTTP_422_UNPROCESSABLE_ENTITY == 422
HTTP_500_INTERNAL_SERVER_ERROR == 500

\* Python's None.
None == [none |-> TRUE]

GenderEnum == {"male", "female", "other"}

FieldOrder == <<"name", "age", "gender", "contact">>

(***************************************************************************)
(* Request bodies.  Names and contacts are real strings, so that the       *)
(* length rules are computed on them.                                      *)
(***************************************************************************)
Name1 == "T"
Name2 == "Al"
Name100 == "ABCDEFGHIJKLMNOPQRSTUVWXYabcdefghijklmnopqrstuvwxyABCDEFGHIJKLMNOPQRSTUVWXYabcdefghijklmnopqrstuvwxy"
Name101 == "ABCDEFGHIJKLMNOPQRSTUVWXYabcdefghijklmnopqrstuvwxyABCDEFGHIJKLMNOPQRSTUVWXYabcdefghijklmnopqrstuvwxyZ"
Contact3 == "123"
Contact4 == "1234"
Contact5 == "12345"
Contact20 == "12345678901234567890"
Contact21 == "123456789012345678901"

PatientJson(n, a, g, c) == [name |-> n, age |-> a, gender |-> g, contact |-> c]

\* Every combination of boundary values of the four fields.
AllInputs ==
    { PatientJson(n, a, g, c) :
        n \in {Name1, Name2, Name100, Name101},
        a \in {0, 1, 149, 150},
        g \in {"male", "female", "other", "Male", "invalid"},
        c \in {Contact4, Contact5, Contact20, Contact21} }

\* The request bodies of the registration flow: the two bodies of the
\* test-suite (one valid, one violating every rule) and a valid body at the
\* upper limits.
FlowInputs ==
    { [name |-> "Test Patient", age |-> 30, gender |-> "male",
       contact |-> "1234567890"],
      PatientJson(Name100, 149, "other", Contact20),
      PatientJson(Name1, 200, "invalid", Contact3) }

(***************************************************************************)
(* Validator: the field constraints of PatientBase.                        *)
(***************************************************************************)
FieldViolates(f, input) ==
    CASE f = "name" ->
            \/ Len(input.name) < name_min_length
            \/ Len(input.name) > name_max_length
      [] f = "age" ->
            \/ ~(input.age > age_gt)
            \/ ~(input.age < age_lt)
      [] f = "gender" -> input.gender \notin GenderEnum
      [] f = "contact" ->
            \/ Len(input.contact) < contact_min_length
            \/ Len(input.contact) > contact_max_length

\* A mutation: validation stops at the first violated field.
ViolationsFirstOnly(input) ==
    LET all == SelectSeq(FieldOrder, LAMBDA f : FieldViolates(f, input))
    IN  IF Len(all) > 1 THEN <<all[1]>> ELSE all

\* The fields reported in the 422 detail, in declaration order.
Violations(input) ==
    SelectSeq(FieldOrder, LAMBDA f : FieldViolates(f, input))

(***************************************************************************)
(* State.                                                                  *)
(***************************************************************************)
VARIABLES
    started,          \* startup_db_client has run
    mongo_db,         \* mongo_db.db: None or the database handle
    patients,         \* rows of the "patients" table (primary store)
    patients_id_seq,  \* last value handed out by the id sequence
    mongo_patients,   \* documents of the "patients" collection (secondary)
    requests,         \* the registration requests, in arrival order
    now,              \* wall clock read by datetime.datetime.now()
    lastGet,          \* last response of GET /patients/{id}
    prevGet,          \* the response of GET /patients/{id} before the last
    lastList,         \* last response of GET /patients/
    prevList          \* the response of GET /patients/ before the last

vars == <<started, mongo_db, patients, patients_id_seq, mongo_patients,
          requests, now, lastGet, prevGet, lastList, prevList>>

storeVars == <<patients, patients_id_seq, mongo_patients>>
readVars == <<lastGet, prevGet, lastList, prevList>>

Init ==
    /\ started = FALSE
    /\ mongo_db = None
    /\ patients = {}
    /\ patients_id_seq = 0
    /\ mongo_patients = <<>>
    /\ requests = <<>>
    /\ now = 0
    /\ lastGet = None
    /\ prevGet = None
    /\ lastList = None
    /\ prevList = None

(***************************************************************************)
(* Helpers of the handlers.                                                *)
(***************************************************************************)
Min(a, b) == IF a < b THEN a ELSE b

\* The ORM row -> response dictionary conversion.
patient_to_dict(patient) ==
    [id |-> patient.id, name |-> patient.name, age |-> patient.age,
     gender |-> patient.gender, contact |-> patient.contact]

\* A mutation: the contact is not passed to the row and stays empty.
PatientTableNoContact(id, patient) ==
    [id |-> id, name |-> patient.name, age |-> patient.age,
     gender |-> patient.gender, contact |-> ""]

\* PatientTable(name=..., age=..., gender=patient.gender.value, contact=...)
\* with the id the sequence assigns at flush time.
PatientTable(id, patient) ==
    [id |-> id, name |-> patient.name, age |-> patient.age,
     gender |-> patient.gender, contact |-> patient.contact]

\* A mutation: the sequence hands out its current value again.
nextvalStuck(seq) == IF seq = 0 THEN 1 ELSE seq

\* The id sequence of the primary key column.
nextval(seq) == seq + 1

\* mongo_db.get_patients_collection(): db.patients if db else None
\* A mutation: a collection is handed out whether or not the handle is set.
get_patients_collectionAlways == [collection |-> "patients"]

get_patients_collection ==
    IF mongo_db # None THEN [collection |-> "patients"] ELSE None

\* The document handed to insert_one: the response dictionary plus the
\* timestamp; insert_one adds the _id.
\* A mutation: the document takes the store's own key as its id.
MirrorDocumentOwnKey(patient, ts, oid) ==
    [_id |-> oid, id |-> oid, name |-> patient.name,
     age |-> patient.age, gender |-> patient.gender,
     contact |-> patient.contact, created_at |-> ts]

MirrorDocument(patient, ts, oid) ==
    [_id |-> oid, id |-> patient.id, name |-> patient.name,
     age |-> patient.age, gender |-> patient.gender,
     contact |-> patient.contact, created_at |-> ts]

\* The failures the body of the try block can raise when the database
\* handle is set.  "lookup_raises": the truth tests "if db" and
\* "if mongo_collection" are applied to the driver's database and collection
\* objects, which (Motor 3 / PyMongo 4) do not implement bool() and raise
\* NotImplementedError; older drivers answer True.  "insert_raises":
\* insert_one fails.
MirrorExceptions == {"lookup_raises", "insert_raises"}

\* A mutation: only failures of the lookup are caught.
ExceptCatchesLookupOnly(e) == e = "lookup_raises"

\* "except Exception": every failure of the mirror step is caught.
ExceptCatches(e) == e \in MirrorExceptions

\* The orders in which a query without ORDER BY may return the rows.
Orderings(rows) ==
    { o \in [1..Cardinality(rows) -> rows] :
        \A i, j \in 1..Cardinality(rows) : i # j => o[i] # o[j] }

\* A mutation: the offset is off by one and drops the first row scanned.
OffsetLimitOffByOne(scan, skip, limit) ==
    SubSeq(scan, skip + 2, Min(Len(scan), skip + 1 + limit))

\* .offset(skip).limit(limit).all() over the rows as the scan returns them.
OffsetLimit(scan, skip, limit) ==
    SubSeq(scan, skip + 1, Min(Len(scan), skip + limit))

\* A mutation: the lookup ignores the id and takes the first row it meets.
get_by_idAny(rows, patient_id) ==
    IF rows = {} THEN None
    ELSE CHOOSE p \in rows : \A q \in rows : p.id <= q.id

\* .filter(PatientTable.id == patient_id).first()
get_by_id(rows, patient_id) ==
    IF \E p \in rows : p.id = patient_id
    THEN CHOOSE p \in rows : p.id = patient_id
    ELSE None

NewRequest(input) ==
    [input |-> input, pc |-> "Validating", status |-> 0, body |-> None,
     detail |-> <<>>, db_patient |-> None, committed |-> None,
     mirror |-> "none", mirror_error |-> ""]

(***************************************************************************)
(* Startup.                                                                *)
(***************************************************************************)
\* init_postgres() then init_mongodb(): a failed ping leaves db = None.
startup_db_client ==
    /\ ~started
    /\ started' = TRUE
    /\ \E connected \in BOOLEAN :
          mongo_db' = IF connected THEN [name |-> "patient_db"] ELSE None
    /\ UNCHANGED <<storeVars, requests, now, readVars>>

\* Time passes.
Tick ==
    /\ now < MaxClock
    /\ now' = now + 1
    /\ UNCHANGED <<started, mongo_db, storeVars, requests, readVars>>

(***************************************************************************)
(* POST /patients/                                                         *)
(***************************************************************************)
\* A request arrives with a JSON body.
Submit(input, bound) ==
    /\ started
    /\ Len(requests) < bound
    /\ requests' = Append(requests, NewRequest(input))
    /\ UNCHANGED <<started, mongo_db, storeVars, now, readVars>>

\* A mutation: the body reaches the handler whatever the validator found.
create_patient_validateLax(r) ==
    /\ requests[r].pc = "Validating"
    /\ requests' = [requests EXCEPT ![r].pc = "WritingPrimary",
                       ![r].detail = Violations(requests[r].input)]
    /\ UNCHANGED <<started, mongo_db, storeVars, now, readVars>>

\* Body validation against PatientCreate, before the handler body runs.
create_patient_validate(r) ==
    /\ requests[r].pc = "Validating"
    /\ LET detail == Violations(requests[r].input)
       IN  requests' =
             IF detail # <<>>
             THEN [requests EXCEPT ![r].pc = "Aborted",
                      ![r].status = HTTP_422_UNPROCESSABLE_ENTITY,
                      ![r].detail = detail]
             ELSE [requests EXCEPT ![r].pc = "WritingPrimary"]
    /\ UNCHANGED <<started, mongo_db, storeVars, now, readVars>>

\* A mutation: a failed commit is ignored and the handler goes on.
create_patient_primaryNoAbort(r) ==
    /\ requests[r].pc = "WritingPrimary"
    /\ LET row == PatientTable(nextval(patients_id_seq), requests[r].input)
       IN  /\ patients_id_seq' = nextval(patients_id_seq)
           /\ \E ok \in BOOLEAN :
                 /\ patients' = IF ok THEN patients \cup {row} ELSE patients
                 /\ requests' = [requests EXCEPT ![r].pc = "Mirroring",
                                    ![r].db_patient = row,
                                    ![r].committed = IF ok THEN row ELSE None]
    /\ UNCHANGED <<started, mongo_db, mongo_patients, now, readVars>>

\* db.add(db_patient); db.commit(); db.refresh(db_patient)
create_patient_primary(r) ==
    /\ requests[r].pc = "WritingPrimary"
    /\ LET row == PatientTable(nextval(patients_id_seq), requests[r].input)
       IN  \/ \* the commit fails: nothing is stored; the id may be used up
              /\ \E burnt \in BOOLEAN :
                    patients_id_seq' = IF burnt THEN nextval(patients_id_seq)
                                       ELSE patients_id_seq
              /\ UNCHANGED patients
              /\ requests' = [requests EXCEPT ![r].pc = "Aborted",
                                 ![r].status = HTTP_500_INTERNAL_SERVER_ERROR]
           \/ \* the commit succeeds, the refresh fails
              /\ patients_id_seq' = nextval(patients_id_seq)
              /\ patients' = patients \cup {row}
              /\ requests' = [requests EXCEPT ![r].pc = "Aborted",
                                 ![r].status = HTTP_500_INTERNAL_SERVER_ERROR,
                                 ![r].committed = row]
           \/ \* both succeed: db_patient carries the assigned id
              /\ patients_id_seq' = nextval(patients_id_seq)
              /\ patients' = patients \cup {row}
              /\ requests' = [requests EXCEPT ![r].pc = "Mirroring",
                                 ![r].db_patient = row,
                                 ![r].committed = row]
    /\ UNCHANGED <<started, mongo_db, mongo_patients, now, readVars>>

\* A mutation: the failure of the mirror step reaches the caller.
MirrorRaisedPropagates(r, e) ==
    /\ UNCHANGED mongo_patients
    /\ requests' = [requests EXCEPT ![r].pc = "Aborted", ![r].mirror = "failed",
                       ![r].mirror_error = e,
                       ![r].status = HTTP_500_INTERNAL_SERVER_ERROR]

\* What the handler does once the try block has raised e.
MirrorRaised(r, e) ==
    /\ UNCHANGED mongo_patients
    /\ requests' =
         IF ExceptCatches(e)
         THEN [requests EXCEPT ![r].pc = "Responding", ![r].mirror = "failed",
                  ![r].mirror_error = e]
         ELSE [requests EXCEPT ![r].pc = "Aborted", ![r].mirror = "failed",
                  ![r].mirror_error = e,
                  ![r].status = HTTP_500_INTERNAL_SERVER_ERROR]

\* A mutation: the document is inserted twice.
create_patient_mirrorTwice(r) ==
    /\ requests[r].pc = "Mirroring"
    /\ get_patients_collection # None
    /\ LET n == Len(mongo_patients)
           p == requests[r].db_patient
       IN  mongo_patients' = mongo_patients \o
              <<MirrorDocument(p, now, n + 1), MirrorDocument(p, now, n + 2)>>
    /\ requests' = [requests EXCEPT ![r].pc = "Responding",
                       ![r].mirror = "inserted"]
    /\ UNCHANGED <<started, mongo_db, patients, patients_id_seq, now, readVars>>

\* A mutation: the handler waits for a mirror write that never returns.
create_patient_mirrorHangs(r) ==
    /\ requests[r].pc = "Mirroring"
    /\ requests[r].mirror = "none"
    /\ requests' = [requests EXCEPT ![r].mirror = "failed",
                       ![r].mirror_error = "insert_raises"]
    /\ UNCHANGED <<started, mongo_db, storeVars, now, readVars>>

\* The try block: mirror the committed record into the secondary store.
create_patient_mirror(r) ==
    /\ requests[r].pc = "Mirroring"
    /\ \/ \E e \in MirrorExceptions :
             /\ mongo_db # None
             /\ MirrorRaised(r, e)
       \/ /\ get_patients_collection = None
          /\ UNCHANGED mongo_patients
          /\ requests' = [requests EXCEPT ![r].pc = "Responding",
                             ![r].mirror = "skipped"]
       \/ /\ get_patients_collection # None
          /\ mongo_patients' = Append(mongo_patients,
                MirrorDocument(requests[r].db_patient, now,
                               Len(mongo_patients) + 1))
          /\ requests' = [requests EXCEPT ![r].pc = "Responding",
                             ![r].mirror = "inserted"]
    /\ UNCHANGED <<started, mongo_db, patients, patients_id_seq, now, readVars>>

\* return patient_to_dict(db_patient), with status 201.
create_patient_respond(r) ==
    /\ requests[r].pc = "Responding"
    /\ requests[r].status = 0
    /\ requests' = [requests EXCEPT ![r].status = HTTP_201_CREATED,
                       ![r].body = patient_to_dict(requests[r].db_patient)]
    /\ UNCHANGED <<started, mongo_db, storeVars, now, readVars>>

(***************************************************************************)
(* GET /patients/ and GET /patients/{patient_id}                           *)
(***************************************************************************)
read_patients(skip, limit) ==
    /\ started
    /\ \E scan \in Orderings(patients) :
          lastList' = [skip |-> skip, limit |-> limit, status |-> HTTP_200_OK,
                       body |-> [i \in DOMAIN OffsetLimit(scan, skip, limit) |->
                                   patient_to_dict(OffsetLimit(scan, skip, limit)[i])],
                       rows |-> patients]
    /\ prevList' = lastList
    /\ UNCHANGED <<started, mongo_db, storeVars, requests, now, lastGet, prevGet>>

\* A mutation: the None check is missing and the conversion of None fails.
read_patientNoCheck(patient_id) ==
    /\ started
    /\ LET patient == get_by_id(patients, patient_id)
       IN  lastGet' =
             IF patient = None
             THEN [patient_id |-> patient_id,
                   status |-> HTTP_500_INTERNAL_SERVER_ERROR,
                   body |-> None, detail |-> "Internal Server Error",
                   rows |-> patients]
             ELSE [patient_id |-> patient_id, status |-> HTTP_200_OK,
                   body |-> patient_to_dict(patient), detail |-> "",
                   rows |-> patients]
    /\ prevGet' = lastGet
    /\ UNCHANGED <<started, mongo_db, storeVars, requests, now, lastList, prevList>>

\* A mutation: the lookup takes the row out of the table.
read_patientConsuming(patient_id) ==
    /\ started
    /\ LET patient == get_by_id(patients, patient_id)
       IN  /\ lastGet' =
                IF patient = None
                THEN [patient_id |-> patient_id, status |-> HTTP_404_NOT_FOUND,
                      body |-> None, detail |-> "Patient not found",
                      rows |-> patients]
                ELSE [patient_id |-> patient_id, status |-> HTTP_200_OK,
                      body |-> patient_to_dict(patient), detail |-> "",
                      rows |-> patients]
           /\ patients' = patients \ {patient}
    /\ prevGet' = lastGet
    /\ UNCHANGED <<started, mongo_db, patients_id_seq, mongo_patients,
                   requests, now, lastList, prevList>>

\* A mutation: the lookup is served from the mirrored documents.
read_patientFromMirror(patient_id) ==
    /\ started
    /\ LET docs == { mongo_patients[i] : i \in DOMAIN mongo_patients }
           patient == get_by_id(docs, patient_id)
       IN  lastGet' =
             IF patient = None
             THEN [patient_id |-> patient_id, status |-> HTTP_404_NOT_FOUND,
                   body |-> None, detail |-> "Patient not found",
                   rows |-> patients]
             ELSE [patient_id |-> patient_id, status |-> HTTP_200_OK,
                   body |-> patient_to_dict(patient), detail |-> "",
                   rows |-> patients]
    /\ prevGet' = lastGet
    /\ UNCHANGED <<started, mongo_db, storeVars, requests, now, lastList, prevList>>

read_patient(patient_id) ==
    /\ started
    /\ LET patient == get_by_id(patients, patient_id)
       IN  lastGet' =
             IF patient = None
             THEN [patient_id |-> patient_id, status |-> HTTP_404_NOT_FOUND,
                   body |-> None, detail |-> "Patient not found",
                   rows |-> patients]
             ELSE [patient_id |-> patient_id, status |-> HTTP_200_OK,
                   body |-> patient_to_dict(patient), detail |-> "",
                   rows |-> patients]
    /\ prevGet' = lastGet
    /\ UNCHANGED <<started, mongo_db, storeVars, requests, now, lastList, prevList>>

(***************************************************************************)
(* Specifications.                                                         *)
(***************************************************************************)
Next ==
    \/ startup_db_client
    \/ \E input \in FlowInputs : Submit(input, MaxRequests)
    \/ \E r \in DOMAIN requests : create_patient_validate(r)
    \/ \E r \in DOMAIN requests : create_patient_primary(r)
    \/ \E r \in DOMAIN requests : create_patient_mirror(r)
    \/ \E r \in DOMAIN requests : create_patient_respond(r)

Spec == Init /\ [][Next]_vars

\* The read surface over a table that earlier runs have filled: the rows
\* carry the ids 1..n in the order the sequence handed them out.
ValidInputs == { input \in FlowInputs : Violations(input) = <<>> }

QueryInit ==
    /\ started = TRUE
    /\ mongo_db = None
    /\ \E n \in 0..MaxRows : \E bodies \in [1..n -> ValidInputs] :
          /\ patients = { PatientTable(i, bodies[i]) : i \in 1..n }
          /\ patients_id_seq = n
    /\ mongo_patients = <<>>
    /\ requests = <<>>
    /\ now = 0
    /\ lastGet = None
    /\ prevGet = None
    /\ lastList = None
    /\ prevList = None

QueryNext ==
    \E skip \in 0..MaxSkip, limit \in 0..MaxLimit : read_patients(skip, limit)

QuerySpec == QueryInit /\ [][QueryNext]_vars

\* The registration flow of valid bodies with the wall clock advancing,
\* so that the timestamp of a document tells when it was written.
\* Every step of a handler is a call that returns or fails: a request that
\* can take its next step eventually takes it.  Submissions and startup are
\* left to the environment.
Fairness ==
    \A r \in 1..MaxRequests :
        /\ WF_vars(r \in DOMAIN requests /\ create_patient_validate(r))
        /\ WF_vars(r \in DOMAIN requests /\ create_patient_primary(r))
        /\ WF_vars(r \in DOMAIN requests /\ create_patient_mirror(r))
        /\ WF_vars(r \in DOMAIN requests /\ create_patient_respond(r))

FairSpec == Init /\ [][Next]_vars /\ Fairness

TimedNext ==
    \/ startup_db_client
    \/ Tick
    \/ \E input \in ValidInputs : Submit(input, MaxRequests)
    \/ \E r \in DOMAIN requests : create_patient_validate(r)
    \/ \E r \in DOMAIN requests : create_patient_primary(r)
    \/ \E r \in DOMAIN requests : create_patient_mirror(r)
    \/ \E r \in DOMAIN requests : create_patient_respond(r)

TimedSpec == Init /\ [][TimedNext]_vars

\* The body the test-suite registers.
TestPatient == PatientJson("Test Patient", 30, "male", "1234567890")

\* Registrations of the test body interleaved with lookups by id.
GetNext ==
    \/ startup_db_client
    \/ Submit(TestPatient, MaxRequests)
    \/ \E r \in DOMAIN requests : create_patient_validate(r)
    \/ \E r \in DOMAIN requests : create_patient_primary(r)
    \/ \E r \in DOMAIN requests : create_patient_mirror(r)
    \/ \E r \in DOMAIN requests : create_patient_respond(r)
    \/ \E patient_id \in 1..MaxRequests : read_patient(patient_id)

GetSpec == Init /\ [][GetNext]_vars

\* Registrations of the test body interleaved with the listing called with
\* its defaults, skip = 0 and limit = 100.
default_skip == 0
default_limit == 100

ListNext ==
    \/ startup_db_client
    \/ Submit(TestPatient, MaxRequests)
    \/ \E r \in DOMAIN requests : create_patient_validate(r)
    \/ \E r \in DOMAIN requests : create_patient_primary(r)
    \/ \E r \in DOMAIN requests : create_patient_mirror(r)
    \/ \E r \in DOMAIN requests : create_patient_respond(r)
    \/ read_patients(default_skip, default_limit)

ListSpec == Init /\ [][ListNext]_vars

\* The read surface over stores that earlier runs have filled: n rows in
\* the primary store, of which the first k are mirrored, and a secondary
\* store that is connected or not.
RowBody(i) ==
    IF i % 2 = 1 THEN TestPatient
    ELSE PatientJson(Name100, 149, "other", Contact20)

ReadInit ==
    /\ started = TRUE
    /\ mongo_db \in {None, [name |-> "patient_db"]}
    /\ \E n \in 0..MaxRows :
          /\ patients = { PatientTable(i, RowBody(i)) : i \in 1..n }
          /\ patients_id_seq = n
          /\ \E k \in 0..n :
                mongo_patients =
                   [i \in 1..k |-> MirrorDocument(PatientTable(i, RowBody(i)), 0, i)]
    /\ requests = <<>>
    /\ now = 0
    /\ lastGet = None
    /\ prevGet = None
    /\ lastList = None
    /\ prevList = None

ReadNext ==
    \/ \E skip \in 0..MaxSkip : read_patients(skip, MaxLimit)
    \/ \E patient_id \in 1..(MaxRows + 1) : read_patient(patient_id)

ReadSpec == ReadInit /\ [][ReadNext]_vars

\* The validator alone, over every combination of boundary values.
ValNext ==
    \/ startup_db_client
    \/ \E input \in AllInputs : Submit(input, ValRequests)
    \/ \E r \in DOMAIN requests : create_patient_validate(r)

ValSpec == Init /\ [][ValNext]_vars

(***************************************************************************)
(* Properties.                                                             *)
(***************************************************************************)
Fields == {"name", "age", "gender", "contact"}

SameFields(a, b) ==
    /\ a.name = b.name
    /\ a.age = b.age
    /\ a.gender = b.gender
    /\ a.contact = b.contact

Range(seq) == { seq[i] : i \in DOMAIN seq }

\* The primary write of request q has committed and returned the id.
PrimaryReturned(q) == q.db_patient # None

\* C1: a registration whose validation and primary write succeeded is
\* answered 201 with the id, name, age, gender and contact of the committed
\* record, never with an error, whatever the mirror step did (inserted,
\* raised, or skipped because the secondary store is not initialised).
C1_MirrorOutcomeInvisible ==
    \A r \in DOMAIN requests :
        LET q == requests[r]
        IN  PrimaryReturned(q) =>
              /\ q.pc \in {"Mirroring", "Responding"}
              /\ q.status \in {0, 201}
              /\ q.mirror \in {"inserted", "failed", "skipped"} =>
                    q.pc = "Responding"
              /\ q.status = 201 =>
                    /\ \E p \in patients :
                          /\ q.body = [id |-> p.id, name |-> p.name,
                                       age |-> p.age, gender |-> p.gender,
                                       contact |-> p.contact]
                          /\ p = q.committed
                    /\ SameFields(q.body, q.input)

C1_Witness ==
    \E r \in DOMAIN requests :
        /\ requests[r].status = 201
        /\ requests[r].mirror = "failed"
        /\ requests[r].body.id \in { p.id : p \in patients }

\* The rules of the validator as the specification words them.
BreaksRule(f, input) ==
    CASE f = "name" -> Len(input.name) \notin 2..100
      [] f = "age" -> input.age \notin 1..149
      [] f = "gender" -> input.gender \notin {"male", "female", "other"}
      [] f = "contact" -> Len(input.contact) \notin 5..20

\* C2: the validator reports exactly the fields that break their rule, all
\* of them together and each once, and accepts the input if and only if no
\* field breaks its rule.
C2_ViolationsExact ==
    \A r \in DOMAIN requests :
        LET q == requests[r]
            broken == { f \in Fields : BreaksRule(f, q.input) }
        IN  q.pc # "Validating" =>
              /\ Range(q.detail) = broken
              /\ Len(q.detail) = Cardinality(broken)
              /\ (q.pc = "WritingPrimary") <=> (broken = {})
              /\ (q.pc = "Aborted") <=> (broken # {})
              /\ q.pc = "Aborted" => q.status = 422

C2_Witness ==
    \E r \in DOMAIN requests :
        /\ requests[r].pc = "Aborted"
        /\ Range(requests[r].detail) = Fields

\* Request q's input appears as a row of the primary store or as a
\* document of the secondary store.
Stored(q) ==
    \/ \E p \in patients : SameFields(p, q.input)
    \/ \E i \in DOMAIN mongo_patients : SameFields(mongo_patients[i], q.input)

\* C3: a registration whose input violates a rule ends with 422, never
\* enters the primary-write or mirror step, and the step that rejects it
\* leaves both stores as they were.
C3_InvalidTouchesNoStore ==
    /\ [](\A r \in DOMAIN requests :
            LET q == requests[r]
            IN  (\E f \in Fields : BreaksRule(f, q.input)) =>
                  /\ q.pc \in {"Validating", "Aborted"}
                  /\ q.pc = "Aborted" => q.status = 422
                  /\ q.db_patient = None /\ q.mirror = "none"
                  /\ ~Stored(q))
    /\ [][\A r \in DOMAIN requests :
            (/\ \E f \in Fields : BreaksRule(f, requests[r].input)
             /\ requests[r].pc # requests'[r].pc)
            => /\ patients' = patients
               /\ patients_id_seq' = patients_id_seq
               /\ mongo_patients' = mongo_patients]_vars

C3_Witness ==
    \E r \in DOMAIN requests :
        /\ requests[r].status = 422
        /\ patients # {}
        /\ mongo_patients # <<>>

\* C4: a valid input is never rejected by the validator; when its primary
\* write returns, the id it assigns is one that no row of the primary store
\* had, and the 201 response carries that id with the submitted name, age,
\* gender and contact.
C4_ValidGetsFreshId ==
    /\ [](\A r \in DOMAIN requests :
            LET q == requests[r]
            IN  (\A f \in Fields : ~BreaksRule(f, q.input)) =>
                  /\ q.status # 422
                  /\ q.pc = "Responding" => PrimaryReturned(q)
                  /\ q.status = 201 =>
                        /\ SameFields(q.body, q.input)
                        /\ q.body.id = q.db_patient.id)
    /\ [][\A r \in DOMAIN requests :
            (~PrimaryReturned(requests[r]) /\ PrimaryReturned(requests'[r]))
            => /\ requests'[r].db_patient.id \notin { p.id : p \in patients }
               /\ requests'[r].db_patient \in patients'
               /\ SameFields(requests'[r].db_patient, requests[r].input)]_vars

C4_Witness ==
    \E r \in DOMAIN requests :
        /\ requests[r].status = 201
        /\ requests[r].body.id > 1
        /\ Cardinality(patients) > 1

\* C5: a registration whose primary write failed ends Aborted with a server
\* error, never attempts the mirror write, and no document of the secondary
\* store belongs to it; the failing step leaves the secondary store as it
\* was.  Only a request whose row is committed reaches the mirror step.
C5_PrimaryFailureNoMirror ==
    /\ [](\A r \in DOMAIN requests :
            LET q == requests[r]
            IN  /\ q.status = 500 =>
                     /\ q.pc = "Aborted"
                     /\ q.mirror = "none"
                     /\ q.committed # None =>
                           \A i \in DOMAIN mongo_patients :
                              mongo_patients[i].id # q.committed.id
                /\ q.pc \in {"Mirroring", "Responding"} =>
                     q.db_patient \in patients)
    /\ [](\A i \in DOMAIN mongo_patients :
            \E p \in patients : p.id = mongo_patients[i].id)
    /\ [][\A r \in DOMAIN requests :
            (requests[r].pc = "WritingPrimary" /\ requests'[r].pc = "Aborted")
            => mongo_patients' = mongo_patients]_vars

C5_Witness ==
    \E r \in DOMAIN requests :
        /\ requests[r].status = 500
        /\ requests[r].committed # None
        /\ mongo_db # None
        /\ mongo_patients # <<>>

\* The moves of the request state machine.
Moves ==
    { <<"Validating", "WritingPrimary">>, <<"Validating", "Aborted">>,
      <<"WritingPrimary", "Mirroring">>, <<"WritingPrimary", "Aborted">>,
      <<"Mirroring", "Responding">> }

\* C6: a request moves only along Validating -> Writing Primary ->
\* Mirroring -> Responding, Aborted is entered only from Validating or
\* Writing Primary, and the mirror write (a document added to the secondary
\* store) happens only in the Mirroring step of a request whose row was
\* committed with its id before that step.
C6_StateMachine ==
    [][/\ \A r \in DOMAIN requests' :
            IF r \in DOMAIN requests
            THEN \/ requests'[r].pc = requests[r].pc
                 \/ <<requests[r].pc, requests'[r].pc>> \in Moves
            ELSE requests'[r].pc = "Validating"
       /\ \A r \in DOMAIN requests :
            requests'[r].pc = "Mirroring" =>
                /\ requests'[r].db_patient # None
                /\ requests'[r].db_patient \in patients'
       /\ mongo_patients' # mongo_patients =>
            \E r \in DOMAIN requests :
                /\ requests[r].pc = "Mirroring"
                /\ requests'[r].pc = "Responding"
                /\ requests[r].db_patient \in patients
                /\ patients' = patients
                /\ mongo_patients' = Append(mongo_patients,
                      mongo_patients'[Len(mongo_patients')])
                /\ mongo_patients'[Len(mongo_patients')].id
                      = requests[r].db_patient.id]_vars

C6_Witness ==
    /\ \E r \in DOMAIN requests :
          requests[r].pc = "Responding" /\ requests[r].mirror = "inserted"
    /\ \E r \in DOMAIN requests :
          requests[r].pc = "Aborted" /\ requests[r].status = 500

\* C7: the record a registration returned stays in the primary store with
\* the same id, name, age, gender and contact: rows are only ever added,
\* one per id, and a later getPatient(id) answers 200 with exactly the
\* returned body.
C7_ReturnedRecordPersists ==
    /\ [](\A r \in DOMAIN requests :
            requests[r].status = 201 =>
               /\ \E p \in patients : patient_to_dict(p) = requests[r].body
               /\ get_by_id(patients, requests[r].body.id) # None
               /\ patient_to_dict(get_by_id(patients, requests[r].body.id))
                     = requests[r].body)
    /\ [](\A p, q \in patients : p.id = q.id => p = q)
    /\ [][/\ patients \subseteq patients'
          /\ \A r \in DOMAIN requests :
               (/\ requests[r].status = 201
                /\ lastGet' # lastGet
                /\ lastGet'.patient_id = requests[r].body.id)
               => /\ lastGet'.status = 200
                  /\ lastGet'.body = requests[r].body]_vars

C7_Witness ==
    \E r \in DOMAIN requests :
        /\ requests[r].status = 201
        /\ lastGet # None
        /\ lastGet.status = 200
        /\ lastGet.body = requests[r].body
        /\ \E p \in patients : p.id > requests[r].body.id

\* C8: the secondary store holds at most one document per record id, every
\* document carries the id, name, age, gender and contact of a row of the
\* primary store, and a row may have no document.
C8_MirrorSubsetOfPrimary ==
    /\ \A i, j \in DOMAIN mongo_patients :
          mongo_patients[i].id = mongo_patients[j].id => i = j
    /\ \A i \in DOMAIN mongo_patients :
          \E p \in patients :
             /\ p.id = mongo_patients[i].id
             /\ SameFields(p, mongo_patients[i])

C8_Witness ==
    /\ mongo_patients # <<>>
    /\ \E p \in patients :
          \A i \in DOMAIN mongo_patients : mongo_patients[i].id # p.id

\* The rows in id-ascending order.
ByIdAscending(rows) ==
    CHOOSE o \in Orderings(rows) :
        \A i, j \in DOMAIN o : i < j => o[i].id < o[j].id

\* The slice of the rows in id order that skips `skip` and takes `limit`.
ExpectedPage(rows, skip, limit) ==
    LET page == OffsetLimit(ByIdAscending(rows), skip, limit)
    IN  [i \in DOMAIN page |-> patient_to_dict(page[i])]

\* C9: listPatients(offset, limit) answers with the rows in id-ascending
\* order, skipping `offset` and returning up to `limit`, and two calls with
\* the same arguments on the same rows answer with the same sequence.
C9_ListOrderedById ==
    /\ lastList # None =>
          lastList.body = ExpectedPage(lastList.rows, lastList.skip, lastList.limit)
    /\ (/\ lastList # None /\ prevList # None
        /\ lastList.rows = prevList.rows
        /\ lastList.skip = prevList.skip
        /\ lastList.limit = prevList.limit)
       => lastList.body = prevList.body

\* C10: with more than `limit` rows, listPatients(0, limit) answers with
\* exactly `limit` records and a following listPatients(limit, limit) on
\* the same rows answers with records none of which was in the first page.
C10_PagesDoNotOverlap ==
    (/\ lastList # None /\ prevList # None
     /\ lastList.rows = prevList.rows
     /\ prevList.limit > 0
     /\ Cardinality(prevList.rows) > prevList.limit
     /\ prevList.skip = 0
     /\ lastList.skip = prevList.limit
     /\ lastList.limit = prevList.limit)
    => /\ Len(prevList.body) = prevList.limit
       /\ Range(prevList.body) \cap Range(lastList.body) = {}

\* C11: getPatient(id) answers 404 with detail "Patient not found" exactly
\* when no row of the primary store has that id, and 200 otherwise; it never
\* answers with a server error for a missing row, and it leaves both stores
\* as they were.
C11_NotFoundIffAbsent ==
    [][lastGet' # lastGet =>
         /\ (lastGet'.status = 404)
               <=> ~(\E p \in patients : p.id = lastGet'.patient_id)
         /\ (lastGet'.status = 404)
               <=> (lastGet'.detail = "Patient not found")
         /\ lastGet'.status \in {200, 404}
         /\ lastGet'.status = 200 => lastGet'.body.id = lastGet'.patient_id
         /\ patients' = patients
         /\ patients_id_seq' = patients_id_seq
         /\ mongo_patients' = mongo_patients]_vars

C11_Witness ==
    /\ lastGet # None
    /\ lastGet.status = 404
    /\ lastGet.detail = "Patient not found"
    /\ patients # {}
    /\ \A p \in patients : p.id # lastGet.patient_id

Max(a, b) == IF a > b THEN a ELSE b

C13_GetIdempotent ==
    /\ []((/\ prevGet # None /\ lastGet # None
           /\ prevGet.patient_id = lastGet.patient_id
           /\ prevGet.rows = lastGet.rows)
          => /\ prevGet.status = lastGet.status
             /\ prevGet.body = lastGet.body)
    /\ [][(lastGet' # lastGet \/ prevGet' # prevGet) =>
             /\ patients' = patients
             /\ patients_id_seq' = patients_id_seq
             /\ lastGet'.rows = patients']_vars

C13_Witness ==
    /\ prevGet # None /\ lastGet # None
    /\ prevGet.patient_id = lastGet.patient_id
    /\ prevGet.rows = lastGet.rows
    /\ lastGet.status = 200
    /\ prevGet.body = lastGet.body
    /\ Cardinality(patients) > 1

\* C14: every row of the primary store is complete and valid: it has an
\* id and all four fields, a name of 2-100 characters, an age in 1..149, a
\* gender among male, female and other, and a contact of 5-20 characters.
C14_PrimaryRowsValid ==
    \A p \in patients :
        /\ DOMAIN p = {"id", "name", "age", "gender", "contact"}
        /\ p.id \in 1..patients_id_seq
        /\ \A f \in Fields : ~BreaksRule(f, p)

C14_Witness ==
    /\ \E p \in patients : Len(p.name) = 100 /\ p.age = 149
    /\ \E r \in DOMAIN requests :
          /\ requests[r].status = 422
          /\ Len(requests[r].detail) = 4

\* C15: a listing with skip 0 and a limit that is at least the number of
\* stored rows (the defaults, skip = 0 and limit = 100, here) answers with
\* every row of the primary store, each once and nothing else; so the
\* record of every registration already answered 201 is in it.
C15_RegisteredRecordListed ==
    [][((lastList' # lastList \/ prevList' # prevList)
        /\ lastList'.skip = 0
        /\ lastList'.limit >= Cardinality(patients)) =>
          /\ lastList'.status = 200
          /\ Range(lastList'.body) = { patient_to_dict(p) : p \in patients }
          /\ Len(lastList'.body) = Cardinality(patients)
          /\ \A r \in DOMAIN requests :
                requests[r].status = 201 =>
                   \E i \in DOMAIN lastList'.body :
                      lastList'.body[i] = requests[r].body]_vars

C15_Witness ==
    /\ lastList # None
    /\ lastList.skip = 0 /\ lastList.limit = 100
    /\ Len(lastList.body) > 1
    /\ \E r \in DOMAIN requests :
          /\ requests[r].status = 201
          /\ requests[r].body.id > 1
          /\ \E i \in DOMAIN lastList.body : lastList.body[i] = requests[r].body

\* C16: when the primary write has succeeded, the secondary store is
\* initialised and insert_one does not fail, the Mirroring step appends
\* exactly one document, holding the id, name, age, gender and contact of
\* the committed row and the timestamp read at that step.
C16_MirrorInsertsOnce ==
    [][\A r \in DOMAIN requests :
          (/\ requests[r].pc = "Mirroring"
           /\ requests'[r].pc # "Mirroring"
           /\ mongo_db # None
           /\ requests'[r].mirror_error # "insert_raises")
          => /\ Len(mongo_patients') = Len(mongo_patients) + 1
             /\ SubSeq(mongo_patients', 1, Len(mongo_patients)) = mongo_patients
             /\ LET doc == mongo_patients'[Len(mongo_patients')]
                    row == requests[r].db_patient
                IN  /\ row \in patients
                    /\ doc.id = row.id
                    /\ SameFields(doc, row)
                    /\ doc.created_at = now]_vars

\* C17: however concurrent registrations interleave, the rows of the primary
\* store have pairwise distinct ids, two committed requests never hold the
\* same id, two 201 responses carry different ids, and every document of the
\* secondary store belongs to exactly one request, whose assigned id and
\* submitted fields it carries.
C17_IdsDistinctUnderInterleaving ==
    /\ \A p1, p2 \in patients : p1.id = p2.id => p1 = p2
    /\ \A r1, r2 \in DOMAIN requests :
          (/\ r1 # r2
           /\ requests[r1].committed # None
           /\ requests[r2].committed # None)
          => requests[r1].committed.id # requests[r2].committed.id
    /\ \A r1, r2 \in DOMAIN requests :
          (r1 # r2 /\ requests[r1].status = 201 /\ requests[r2].status = 201)
          => requests[r1].body.id # requests[r2].body.id
    /\ \A r \in DOMAIN requests :
          requests[r].mirror = "inserted" =>
             Cardinality({ i \in DOMAIN mongo_patients :
                             /\ mongo_patients[i].id = requests[r].db_patient.id
                             /\ SameFields(mongo_patients[i], requests[r].input)
                         }) = 1
    /\ \A i \in DOMAIN mongo_patients :
          Cardinality({ r \in DOMAIN requests :
                          /\ requests[r].mirror = "inserted"
                          /\ requests[r].db_patient.id = mongo_patients[i].id
                      }) = 1

\* Two registrations overtook each other: the later submission committed
\* first, both were mirrored and both were answered.
C17_Witness ==
    \E r1, r2 \in DOMAIN requests :
        /\ r1 < r2
        /\ requests[r1].status = 201
        /\ requests[r2].status = 201
        /\ requests[r2].body.id < requests[r1].body.id
        /\ requests[r1].mirror = "inserted"
        /\ requests[r2].mirror = "inserted"
        /\ mongo_patients[1].id = requests[r2].body.id
        /\ requests[r1].input # requests[r2].input

C19_RequestsTerminate ==
    /\ \A r \in 1..MaxRequests :
          /\ (r \in DOMAIN requests) ~>
                (/\ r \in DOMAIN requests
                 /\ requests[r].pc \in {"Responding", "Aborted"}
                 /\ requests[r].status # 0)
          /\ (r \in DOMAIN requests /\ requests[r].pc = "Mirroring") ~>
                (/\ r \in DOMAIN requests
                 /\ requests[r].pc = "Responding"
                 /\ requests[r].status = 201)
    /\ [][\A r \in DOMAIN requests :
            /\ requests[r].pc \in {"WritingPrimary", "Mirroring"}
                 => (requests'[r] # requests[r] => requests'[r].pc # requests[r].pc)
            /\ requests[r].pc \in {"Responding", "Aborted"}
                 => requests'[r].pc = requests[r].pc]_vars

\* Both ways through Mirroring have ended in Responding: one request whose
\* mirror write failed and one whose mirror write succeeded were answered.
C19_Witness ==
    \E r1, r2 \in DOMAIN requests :
        /\ requests[r1].pc = "Responding"
        /\ requests[r1].mirror = "failed"
        /\ requests[r1].status = 201
        /\ requests[r2].pc = "Responding"
        /\ requests[r2].mirror = "inserted"
        /\ requests[r2].status = 201

\* C20: a registration that ends in Aborted has left the primary store as
\* it was: the step that aborts it stores no row, and no row of an aborted
\* request is ever committed, the failure of the refresh after the commit
\* included.
C20_AbortedLeavesPrimaryUnchanged ==
    /\ [](\A r \in DOMAIN requests :
            requests[r].pc = "Aborted" => requests[r].committed = None)
    /\ [][\A r \in DOMAIN requests :
            (requests[r].pc # "Aborted" /\ requests'[r].pc = "Aborted")
            => patients' = patients]_vars

====
